---- MODULE Spec2Model ----
(***************************************************************************)
(* Model of ImageDiff (src/ImageDiff/ImageDiff.cpp): the RMSE command-line *)
(* tool.  Two specifications share the operators translated from the code: *)
(*   Spec      main() and ImageRMSE::computeRMSE run on files of a fixed   *)
(*             disk, in a build with or without NDEBUG;                    *)
(*   SpecCore  rmse, maxDiff, diffVector, saveLuminanceImage and the       *)
(*             extraction loop applied to arbitrary bounded fields.        *)
(* Floating-point values are fixed-point integers: the value v stands for  *)
(* v / One.  The non-finite values are the three numbers PosInf, NegInf    *)
(* and NaN, outside the range of every finite value of the model.          *)
(***************************************************************************)
EXTENDS Integers, Sequences, FiniteSets, TLC

\* ------------------------------------------------------------- bounds
\* Longest field given to the metric functions in SpecCore.
MaxLen == 3
\* Largest element of such a field.
MaxVal == 2
\* Largest argc main() is started with.
MaxArgc == 6

\* ------------------------------------------------ floating-point values
\* 1.0f (the exported alpha, and the unit of the fixed-point scale).
One == 100
\* luminance(): the weights 0.212671f, 0.715160f, 0.072169f as millionths.
WeightR == 212671
WeightG == 715160
WeightB == 72169
WeightScale == 1000000
\* sizeof(float)
SizeofFloat == 4

PosInf == One * One * One * One
NegInf == 0 - PosInf
NaN == PosInf + 1
NonFinite == {PosInf, NegInf, NaN}

isinf(x) == x \in {PosInf, NegInf}
isnan(x) == x = NaN

\* IEEE subtraction x - y.
FSub(x, y) ==
    IF isnan(x) \/ isnan(y) THEN NaN
    ELSE IF isinf(x) /\ isinf(y) THEN (IF x = y THEN NaN ELSE x)
    ELSE IF isinf(x) THEN x
    ELSE IF isinf(y) THEN (IF y = PosInf THEN NegInf ELSE PosInf)
    ELSE x - y

\* IEEE addition x + y.
FAdd(x, y) ==
    IF isnan(x) \/ isnan(y) THEN NaN
    ELSE IF isinf(x) /\ isinf(y) THEN (IF x = y THEN x ELSE NaN)
    ELSE IF isinf(x) THEN x
    ELSE IF isinf(y) THEN y
    ELSE x + y

\* std::abs on a double.
FAbs(x) ==
    IF isnan(x) THEN NaN
    ELSE IF isinf(x) THEN PosInf
    ELSE IF x < 0 THEN 0 - x ELSE x

\* Mutant of FSquare: the difference is not squared.
FSquareDropped(x) == x

\* x * x on doubles (the result is in units of 1 / (One * One)).
FSquare(x) ==
    IF isnan(x) THEN NaN
    ELSE IF isinf(x) THEN PosInf
    ELSE x * x

\* x > y on doubles: false as soon as an operand is NaN.
FGreater(x, y) == ~isnan(x) /\ ~isnan(y) /\ x > y

\* A positive weight (in millionths) times a sample.
FScale(w, x) == IF x \in NonFinite THEN x ELSE w * x

RECURSIVE IsqrtSearch(_, _, _)
IsqrtSearch(x, lo, hi) ==
    IF lo >= hi THEN lo
    ELSE LET mid == (lo + hi + 1) \div 2
         IN  IF mid * mid <= x THEN IsqrtSearch(x, mid, hi)
             ELSE IsqrtSearch(x, lo, mid - 1)

\* sqrt on a finite non-negative value, rounded down.
Isqrt(x) == IsqrtSearch(x, 0, 4 * One * One)

\* ------------------------------------------------------------ luminance
\* luminance(r, g, b): 0.212671f * r + 0.715160f * g + 0.072169f * b.
LuminanceSum(r, g, b) ==
    FAdd(FAdd(FScale(WeightR, r), FScale(WeightG, g)), FScale(WeightB, b))

luminance(r, g, b) ==
    LET s == LuminanceSum(r, g, b)
    IN  IF s \in NonFinite THEN s ELSE s \div WeightScale

\* ------------------------------------------------- out-of-bounds reads
\* A read past the end of a vector is undefined behaviour: the process
\* crashes, or the read yields whatever the memory holds.  Garbage is
\* the set such a read is drawn from; junk[i] is what position i holds.
\* junk[1] is the memory behind the first vector of a call, junk[2] the
\* memory behind the second.
Garbage == {0, One}
JunkRows(positions) ==
    {j \in [1..MaxLen -> Garbage] : \A i \in 1..MaxLen : i \notin positions => j[i] = 0}
JunkChoices(positions1, positions2) == JunkRows(positions1) \X JunkRows(positions2)

\* data[i - 1] of the code (i is the 1-based position).
At(data, i, row) == IF i \in 1..Len(data) THEN data[i] ELSE row[i]

\* ----------------------------------------------------------- the metric
\* diffVector's element: std::abs(v1[i] - v2[i]).
AbsDiff(data1, data2, i, junk) ==
    FAbs(FSub(At(data1, i, junk[1]), At(data2, i, junk[2])))

\* diffVector: the loop runs over v1.size().
diffVector(v1, v2, junk) ==
    [i \in 1..Len(v1) |-> AbsDiff(v1, v2, i, junk)]

\* rmse(): the accumulation loop over data1.size().
RECURSIVE SumSquares(_, _, _, _)
SumSquares(data1, data2, i, junk) ==
    IF i = 0 THEN 0
    ELSE FAdd(SumSquares(data1, data2, i - 1, junk),
              FSquare(FSub(At(data1, i, junk[1]), At(data2, i, junk[2]))))

\* rmse(): 1.0 / data1.size() * rmse.  With no element 1.0 / 0 is +inf
\* and inf * 0.0 is NaN.  The mean is kept in units of 1 / One^4.
RmseMean(sum, n) ==
    IF n = 0 THEN NaN
    ELSE IF sum \in NonFinite THEN sum
    ELSE (One * One * sum) \div n

\* rmse(): sqrt(1.0 / data1.size() * rmse).  The result is in units of
\* 1 / (One * One).
rmse(data1, data2, junk) ==
    LET m == RmseMean(SumSquares(data1, data2, Len(data1), junk), Len(data1))
    IN  IF m \in NonFinite THEN m ELSE Isqrt(m)

\* Mutant of MaxDiffReplaces: >= lets a later tie replace the maximum.
MaxDiffReplacesOnTie(candidate, best) ==
    ~isnan(candidate) /\ ~isnan(best) /\ candidate >= best

\* maxDiff(): the comparison that replaces the running maximum.
MaxDiffReplaces(candidate, best) == FGreater(candidate, best)

\* maxDiff(): the loop, res = <<index, value>> with a 0-based index.
RECURSIVE MaxDiffLoop(_, _, _, _, _)
MaxDiffLoop(data1, data2, i, res, junk) ==
    IF i > Len(data1) THEN res
    ELSE LET d == AbsDiff(data1, data2, i, junk)
         IN  MaxDiffLoop(data1, data2, i + 1,
                         IF MaxDiffReplaces(d, res[2]) THEN <<i - 1, d>> ELSE res,
                         junk)

maxDiff(data1, data2, junk) ==
    MaxDiffLoop(data1, data2, 1, <<0, AbsDiff(data1, data2, 1, junk)>>, junk)

\* The positions past the end of data2 that the loops of rmse, maxDiff and
\* diffVector read.
PastEnd(data1, data2) == (Len(data2) + 1)..Len(data1)
\* maxDiff reads element 0 of both vectors before its loop.
FirstPastEnd(data) == IF Len(data) = 0 THEN {1} ELSE {}

\* -------------------------------------------------------------- bitmaps
\* A FreeImage bitmap: bits[s + 1] is scanline s (scanline 0 is the bottom
\* row of the picture), a flat sequence of samples.
NullBitmap == [type |-> "FIT_UNKNOWN", width |-> 0, height |-> 0, bpp |-> 0, bits |-> <<>>]

FreeImage_GetLine(bitmap) == (bitmap.width * bitmap.bpp) \div 8

\* bytespp = FreeImage_GetLine(bitmap) / imageWidth / sizeof(float)
BytesPerPixel(bitmap) == (FreeImage_GetLine(bitmap) \div bitmap.width) \div SizeofFloat

\* Mutant of ScanLineOf: the rows are not flipped.
ScanLineUnflipped(height, y) == y

\* The scanline the loops of loadImageToLuminance and saveLuminanceImage
\* fetch for row y: FreeImage_GetScanLine(bitmap, height - y - 1).
ScanLineOf(height, y) == height - y - 1

\* The samples bits[0], bits[1], bits[2] of the pixel the extraction loop
\* visits at step i (i = width * y + x + 1), bits advancing by bytespp.
VisitedPixel(bitmap, i) ==
    LET y == (i - 1) \div bitmap.width
        x == (i - 1) % bitmap.width
        line == bitmap.bits[ScanLineOf(bitmap.height, y) + 1]
        p == x * BytesPerPixel(bitmap)
    IN  <<line[p + 1], line[p + 2], line[p + 3]>>

\* The loops of case FIT_RGBAF / FIT_RGBF: one push_back per pixel.
ExtractLuminance(bitmap) ==
    [i \in 1..(bitmap.width * bitmap.height) |->
        LET px == VisitedPixel(bitmap, i) IN luminance(px[1], px[2], px[3])]

\* The asserts of the loops: some visited R, G or B sample is inf or NaN.
HasNonFiniteSample(bitmap) ==
    \E i \in 1..(bitmap.width * bitmap.height) :
        \E c \in 1..3 : VisitedPixel(bitmap, i)[c] \in NonFinite

\* saveLuminanceImage: the bitmap FreeImage_AllocateT(FIT_RGBAF, width, height)
\* returns, before it is filled.
AllocatedBitmap(width, height) ==
    [type |-> "FIT_RGBAF", width |-> width, height |-> height, bpp |-> 128,
     bits |-> [s \in 1..height |-> [k \in 1..(4 * width) |-> 0]]]

\* saveLuminanceImage: the sample written at position k of the scanline
\* fetched for row y (bits[0..2] = buffer[width * y + x], bits[3] = 1.f,
\* bits advancing by bytespp).
SavedSample(buffer, width, y, k, bytespp, junk) ==
    LET x == (k - 1) \div bytespp
        c == (k - 1) % bytespp
    IN  IF c = 3 THEN One ELSE At(buffer, width * y + x + 1, junk[1])

\* saveLuminanceImage: the FIT_RGBAF bitmap handed to FreeImage_Save.
SavedBitmap(buffer, width, height, junk) ==
    LET bitmap == AllocatedBitmap(width, height)
        bytespp == BytesPerPixel(bitmap)
    IN  [bitmap EXCEPT
            !.bits = [s \in 1..height |->
                        [k \in 1..(bytespp * width) |->
                            SavedSample(buffer, width, ScanLineOf(height, s - 1), k,
                                        bytespp, junk)]]]

\* The positions past the end of buffer that saveLuminanceImage reads.
SavePastEnd(buffer, width, height) == (Len(buffer) + 1)..(width * height)

\* ------------------------------------------------------------ filenames
\* A filename is a sequence of characters.
ToLower(c) ==
    CASE c = "E" -> "e" [] c = "X" -> "x" [] c = "R" -> "r"
      [] c = "H" -> "h" [] c = "D" -> "d" [] OTHER -> c

\* filename.find_last_of("."): the 1-based position, 0 for npos.
FindLastDot(filename) ==
    LET dots == {i \in 1..Len(filename) : filename[i] = "."}
    IN  IF dots = {} THEN 0 ELSE CHOOSE i \in dots : \A j \in dots : j <= i

\* The lower-cased extension.
Extension(filename) ==
    LET at == FindLastDot(filename)
        ext == IF at = 0 THEN <<>> ELSE SubSeq(filename, at + 1, Len(filename))
    IN  [i \in 1..Len(ext) |-> ToLower(ext[i])]

\* The lambda getFreeImageFormat.
getFreeImageFormat(filename) ==
    LET ext == Extension(filename)
    IN  IF ext = <<"h", "d", "r">> THEN "FIF_HDR"
        ELSE IF ext = <<"e", "x", "r">> THEN "FIF_EXR"
        ELSE "FIF_UNKNOWN"

\* ------------------------------------------------------------- the disk
\* The files the tool is run on, and what FreeImage_Load decodes from each.
FileA == <<"a", ".", "e", "x", "r">>
FileB == <<"b", ".", "H", "D", "R">>
FileC == <<"c", ".", "E", "x", "r">>
FileD == <<"d", ".", "x", ".", "h", "d", "r">>
FileBmp == <<"e", ".", "e", "x", "r">>
FileBad == <<"f", ".", "h", "d", "r">>
FilePng == <<"g", ".", "e", "x", "r", ".", "p", "n", "g">>
FileNoExt == <<"h", "d", "r">>
FileMissing == <<"m", ".", "e", "x", "r">>
Files == {FileA, FileB, FileC, FileD, FileBmp, FileBad, FilePng, FileNoExt, FileMissing}

Red == <<One, 0, 0>>
Green == <<0, One, 0>>
White == <<One, One, One>>
Black == <<0, 0, 0>>
Opaque == <<One>>

FreeImage_Load(filename) ==
    CASE filename = FileA ->
           [type |-> "FIT_RGBAF", width |-> 1, height |-> 2, bpp |-> 128,
            bits |-> <<White \o Opaque, Red \o Opaque>>]
      [] filename = FileB ->
           [type |-> "FIT_RGBF", width |-> 1, height |-> 2, bpp |-> 96,
            bits |-> <<Green, Red>>]
      [] filename = FileC ->
           [type |-> "FIT_RGBAF", width |-> 2, height |-> 1, bpp |-> 128,
            bits |-> <<Red \o Opaque \o White \o Opaque>>]
      [] filename = FileD ->
           [type |-> "FIT_RGBF", width |-> 1, height |-> 1, bpp |-> 96,
            bits |-> <<Black>>]
      [] filename = FileBmp ->
           [type |-> "FIT_BITMAP", width |-> 1, height |-> 1, bpp |-> 24,
            bits |-> <<Black>>]
      [] filename = FileBad ->
           [type |-> "FIT_RGBF", width |-> 1, height |-> 2, bpp |-> 96,
            bits |-> <<<<PosInf, 0, 0>>, <<0, NaN, 0>>>>]
      [] OTHER -> NullBitmap

\* ---------------------------------------------------------------- state
VARIABLES
    ndebug,     \* the build defines NDEBUG: assert() checks nothing
    argc,       \* main's argc
    argv,       \* argv[1 .. argc - 1]
    pc,         \* where the process is
    image1, image2, imageRef,   \* computeRMSE's luminance buffers
    width, height, dimsSet,     \* computeRMSE's width and height; dimsSet is
                                \* FALSE while they are uninitialized
    rmse1, rmse2, max1, max2, diff1, diff2,  \* computeRMSE's other locals
    decoded,    \* history: the FreeImage_Load calls, with what each decoded
    events,     \* history: console lines and FreeImage_Save calls, in order
    written,    \* the files FreeImage_Save has written
    data1, data2,           \* SpecCore: the two fields
    cpc,                    \* SpecCore: the call that has returned
    rmseRes, maxRes, diffRes,   \* SpecCore: results of the three functions
    saveW, saveH, savedRes, reloadRes   \* SpecCore: the export and its re-extraction

mainVars == <<ndebug, argc, argv, pc, image1, image2, imageRef, width, height,
              dimsSet, rmse1, rmse2, max1, max2, diff1, diff2, decoded, events,
              written>>
coreVars == <<data1, data2, cpc, rmseRes, maxRes, diffRes, saveW, saveH,
              savedRes, reloadRes>>
vars == <<mainVars, coreVars>>

\* ------------------------------------------------------------- messages
UsageLine == "cerr: RMSE Sample Usage"
FormatLine == "cerr: The format is neither HDR nor EXR"
TypeLine == "cerr: Type of the image is not RGBF/RGBAF"
InfoLines == <<"cout: Image", "cout: Image Type", "cout: Image component">>
AssertLine == "cerr: Assertion failed"
RmseLine1 == "cout: Image1 RMSE"
RmseLine2 == "cout: Image2 RMSE"
MaxDiffLine1 == "cout: Image1 maxDiff"
MaxDiffLine2 == "cout: Image2 maxDiff"
SaveCall1 == "FreeImage_Save diff1.exr"
SaveCall2 == "FreeImage_Save diff2.exr"

\* Mutant of RmseReport: candidate 2 is reported first.
RmseReportSwapped == <<RmseLine2, RmseLine1>>

\* computeRMSE line 55: the two RMSE lines, in the order they are printed.
RmseReport == <<RmseLine1, RmseLine2>>
\* computeRMSE lines 61-62: the two maxDiff lines.
MaxDiffReport == <<MaxDiffLine1, MaxDiffLine2>>

\* Mutant of DiffImageFlag: any argument count past four enables the export.
DiffImageFlagAtLeast(n) == n >= 5

\* main line 280: the diffImage argument.
DiffImageFlag(n) == n = 5

\* The arguments after the three filenames.
ExtraArgs == {<<"t", "r", "u", "e">>, <<"0">>}

Min(a, b) == IF a < b THEN a ELSE b
Max(a, b) == IF a < b THEN b ELSE a

\* The argument vectors of a run with n = argc.
ArgvChoices(n) ==
    {f \o e : f \in [1..Min(n - 1, 3) -> Files],
              e \in [1..Max(n - 4, 0) -> ExtraArgs]}

\* -------------------------------------------------- loadImageToLuminance
\* What one call does: status is "return", "abort" (a failed assert) or
\* "crash"; called says FreeImage_Load was reached; setDims says *width
\* and *height were assigned.
LoadResult(status, buf, called, bitmap, ev) ==
    [status |-> status, buf |-> buf, called |-> called,
     setDims |-> called /\ status = "return", w |-> bitmap.width, h |-> bitmap.height,
     ev |-> ev]

LoadOutcomes(filename, nd) ==
    IF getFreeImageFormat(filename) = "FIF_UNKNOWN"
    THEN {LoadResult("return", <<>>, FALSE, NullBitmap, <<FormatLine>>)}
    ELSE LET bitmap == FreeImage_Load(filename) IN
         IF bitmap = NullBitmap
         THEN IF ~nd
              THEN {LoadResult("abort", <<>>, TRUE, bitmap, <<AssertLine>>)}
              \* FreeImage_GetLine(bitmap) / imageWidth divides by zero
              ELSE {LoadResult("crash", <<>>, TRUE, bitmap, <<>>),
                    LoadResult("return", <<>>, TRUE, bitmap, InfoLines \o <<TypeLine>>)}
         ELSE IF bitmap.type \in {"FIT_RGBAF", "FIT_RGBF"}
              THEN IF ~nd /\ HasNonFiniteSample(bitmap)
                   THEN {LoadResult("abort", <<>>, TRUE, bitmap, InfoLines \o <<AssertLine>>)}
                   ELSE {LoadResult("return", ExtractLuminance(bitmap), TRUE, bitmap, InfoLines)}
              ELSE IF ~nd /\ bitmap.width * bitmap.height # 0
                   THEN {LoadResult("abort", <<>>, TRUE, bitmap,
                                    InfoLines \o <<TypeLine, AssertLine>>)}
                   ELSE {LoadResult("return", <<>>, TRUE, bitmap, InfoLines \o <<TypeLine>>)}

PcAfter(status, next) ==
    CASE status = "return" -> next
      [] status = "abort" -> "aborted"
      [] status = "crash" -> "crashed"

\* What a call of loadImageToLuminance leaves outside its return value.
LoadEffects(filename, o, next) ==
    /\ pc' = PcAfter(o.status, next)
    /\ width' = IF o.setDims THEN o.w ELSE width
    /\ height' = IF o.setDims THEN o.h ELSE height
    /\ dimsSet' = (dimsSet \/ o.setDims)
    /\ decoded' = IF o.called
                  THEN Append(decoded, [file |-> filename, w |-> o.w, h |-> o.h])
                  ELSE decoded
    /\ events' = events \o o.ev
    /\ UNCHANGED <<ndebug, argc, argv, rmse1, rmse2, max1, max2, diff1, diff2, written>>
    /\ UNCHANGED coreVars

\* ---------------------------------------------------- saveLuminanceImage
\* What one call does; file is the bitmap written, NullBitmap for none.
GarbageDims == {0, 1}

SaveOutcomes(buffer, w, h) ==
    IF w <= 0 \/ h <= 0
    \* FreeImage_AllocateT returns NULL: FreeImage_Save writes nothing, and
    \* FreeImage_GetLine(bitmap) / width divides by zero when width is 0.
    THEN {[status |-> "return", file |-> NullBitmap]}
         \cup (IF w = 0 THEN {[status |-> "crash", file |-> NullBitmap]} ELSE {})
    ELSE {[status |-> "return", file |-> SavedBitmap(buffer, w, h, junk)] :
             junk \in JunkChoices(SavePastEnd(buffer, w, h), {})}
         \cup (IF SavePastEnd(buffer, w, h) # {}
               THEN {[status |-> "crash", file |-> NullBitmap]} ELSE {})

\* The width and height a statement of computeRMSE reads.
DimsRead == IF dimsSet THEN {<<width, height>>} ELSE GarbageDims \X GarbageDims

\* ---------------------------------------------------------------- Init
NoFiles == [n \in {"diff1.exr", "diff2.exr"} |-> NullBitmap]

MainIdle ==
    /\ ndebug = FALSE /\ argc = 1 /\ argv = <<>> /\ pc = "off"
    /\ image1 = <<>> /\ image2 = <<>> /\ imageRef = <<>>
    /\ width = 0 /\ height = 0 /\ dimsSet = FALSE
    /\ rmse1 = 0 /\ rmse2 = 0 /\ max1 = <<0, 0>> /\ max2 = <<0, 0>>
    /\ diff1 = <<>> /\ diff2 = <<>>
    /\ decoded = <<>> /\ events = <<>> /\ written = NoFiles

CoreIdle ==
    /\ data1 = <<>> /\ data2 = <<>> /\ cpc = "off"
    /\ rmseRes = 0 /\ maxRes = <<0, 0>> /\ diffRes = <<>>
    /\ saveW = 0 /\ saveH = 0 /\ savedRes = NullBitmap /\ reloadRes = <<>>

Init ==
    /\ ndebug \in BOOLEAN
    /\ argc \in 1..MaxArgc
    /\ argv \in ArgvChoices(argc)
    /\ pc = "main"
    /\ image1 = <<>> /\ image2 = <<>> /\ imageRef = <<>>
    /\ width = 0 /\ height = 0 /\ dimsSet = FALSE
    /\ rmse1 = 0 /\ rmse2 = 0 /\ max1 = <<0, 0>> /\ max2 = <<0, 0>>
    /\ diff1 = <<>> /\ diff2 = <<>>
    /\ decoded = <<>> /\ events = <<>> /\ written = NoFiles
    /\ CoreIdle

\* ------------------------------------------------------------- actions
\* main, lines 271-280: the usage check, then the call of computeRMSE.
Main ==
    /\ pc = "main"
    /\ pc' = IF argc < 4 THEN "exit1" ELSE "load1"
    /\ events' = IF argc < 4 THEN Append(events, UsageLine) ELSE events
    /\ UNCHANGED <<ndebug, argc, argv, image1, image2, imageRef, width, height,
                   dimsSet, rmse1, rmse2, max1, max2, diff1, diff2, decoded, written>>
    /\ UNCHANGED coreVars

\* computeRMSE line 46
Load1 ==
    /\ pc = "load1"
    /\ \E o \in LoadOutcomes(argv[1], ndebug) :
          /\ image1' = o.buf
          /\ LoadEffects(argv[1], o, "load2")
    /\ UNCHANGED <<image2, imageRef>>

\* computeRMSE line 47
Load2 ==
    /\ pc = "load2"
    /\ \E o \in LoadOutcomes(argv[2], ndebug) :
          /\ image2' = o.buf
          /\ LoadEffects(argv[2], o, "loadRef")
    /\ UNCHANGED <<image1, imageRef>>

\* computeRMSE line 48
LoadRef ==
    /\ pc = "loadRef"
    /\ \E o \in LoadOutcomes(argv[3], ndebug) :
          /\ imageRef' = o.buf
          /\ LoadEffects(argv[3], o, "assert")
    /\ UNCHANGED <<image1, image2>>

\* computeRMSE line 49: assert(!image1.empty() || !image2.empty() || !imageRef.empty())
LoadedCheck(i1, i2, ir) == i1 # <<>> \/ i2 # <<>> \/ ir # <<>>

AssertLoaded ==
    /\ pc = "assert"
    /\ pc' = IF ~ndebug /\ ~LoadedCheck(image1, image2, imageRef) THEN "aborted" ELSE "rmse"
    /\ events' = IF pc' = "aborted" THEN Append(events, AssertLine) ELSE events
    /\ UNCHANGED <<ndebug, argc, argv, image1, image2, imageRef, width, height,
                   dimsSet, rmse1, rmse2, max1, max2, diff1, diff2, decoded, written>>
    /\ UNCHANGED coreVars

\* computeRMSE lines 51-57: the two rmse calls and the report of them.
ComputeRmse ==
    /\ pc = "rmse"
    /\ \E st \in {"return"} \cup
                 (IF PastEnd(image1, imageRef) \cup PastEnd(image2, imageRef) # {}
                  THEN {"crash"} ELSE {}) :
       \E j1 \in JunkChoices({}, PastEnd(image1, imageRef)) :
       \E j2 \in JunkChoices({}, PastEnd(image2, imageRef)) :
          /\ pc' = PcAfter(st, IF DiffImageFlag(argc) THEN "maxDiff" ELSE "return")
          /\ rmse1' = IF st = "return" THEN rmse(image1, imageRef, j1) ELSE rmse1
          /\ rmse2' = IF st = "return" THEN rmse(image2, imageRef, j2) ELSE rmse2
          /\ events' = IF st = "return" THEN events \o RmseReport ELSE events
    /\ UNCHANGED <<ndebug, argc, argv, image1, image2, imageRef, width, height,
                   dimsSet, max1, max2, diff1, diff2, decoded, written>>
    /\ UNCHANGED coreVars

\* computeRMSE lines 59-62: the two maxDiff calls and the report of them.
ComputeMaxDiff ==
    /\ pc = "maxDiff"
    /\ LET p1 == FirstPastEnd(image1)
           p2 == FirstPastEnd(image2)
           r1 == FirstPastEnd(imageRef) \cup PastEnd(image1, imageRef)
           r2 == FirstPastEnd(imageRef) \cup PastEnd(image2, imageRef)
       IN  \E st \in {"return"} \cup
                     (IF p1 \cup p2 \cup r1 \cup r2 # {} THEN {"crash"} ELSE {}) :
           \E j1 \in JunkChoices(p1, r1) :
           \E j2 \in JunkChoices(p2, r2) :
              /\ pc' = PcAfter(st, "diffVector")
              /\ max1' = IF st = "return" THEN maxDiff(image1, imageRef, j1) ELSE max1
              /\ max2' = IF st = "return" THEN maxDiff(image2, imageRef, j2) ELSE max2
              /\ events' = IF st = "return" THEN events \o MaxDiffReport ELSE events
    /\ UNCHANGED <<ndebug, argc, argv, image1, image2, imageRef, width, height,
                   dimsSet, rmse1, rmse2, diff1, diff2, decoded, written>>
    /\ UNCHANGED coreVars

\* diffVector line 23: assert(v1.size() == v2.size())
SameSize(v1, v2) == Len(v1) = Len(v2)

\* computeRMSE lines 65-66: the two diffVector calls.
ComputeDiff ==
    /\ pc = "diffVector"
    /\ LET failed == ~ndebug /\ ~(SameSize(image1, imageRef) /\ SameSize(image2, imageRef))
           past == PastEnd(image1, imageRef) \cup PastEnd(image2, imageRef)
       IN  \E st \in (IF failed THEN {"abort"} ELSE {"return"})
                     \cup (IF ~failed /\ past # {} THEN {"crash"} ELSE {}) :
           \E j1 \in JunkChoices({}, PastEnd(image1, imageRef)) :
           \E j2 \in JunkChoices({}, PastEnd(image2, imageRef)) :
              /\ pc' = PcAfter(st, "save1")
              /\ diff1' = IF st = "return" THEN diffVector(image1, imageRef, j1) ELSE diff1
              /\ diff2' = IF st = "return" THEN diffVector(image2, imageRef, j2) ELSE diff2
              /\ events' = IF st = "abort" THEN Append(events, AssertLine) ELSE events
    /\ UNCHANGED <<ndebug, argc, argv, image1, image2, imageRef, width, height,
                   dimsSet, rmse1, rmse2, max1, max2, decoded, written>>
    /\ UNCHANGED coreVars

\* What a call of saveLuminanceImage leaves behind.
SaveEffects(name, call, o, next) ==
    /\ pc' = PcAfter(o.status, next)
    /\ events' = IF o.status = "return" THEN Append(events, call) ELSE events
    /\ written' = IF o.file # NullBitmap THEN [written EXCEPT ![name] = o.file] ELSE written
    /\ UNCHANGED <<ndebug, argc, argv, image1, image2, imageRef, width, height,
                   dimsSet, rmse1, rmse2, max1, max2, diff1, diff2, decoded>>
    /\ UNCHANGED coreVars

\* computeRMSE line 67
SaveDiff1 ==
    /\ pc = "save1"
    /\ \E d \in DimsRead : \E o \in SaveOutcomes(diff1, d[1], d[2]) :
          SaveEffects("diff1.exr", SaveCall1, o, "save2")

\* computeRMSE line 68
SaveDiff2 ==
    /\ pc = "save2"
    /\ \E d \in DimsRead : \E o \in SaveOutcomes(diff2, d[1], d[2]) :
          SaveEffects("diff2.exr", SaveCall2, o, "return")

\* main line 282: return 0
Return ==
    /\ pc = "return"
    /\ pc' = "exit0"
    /\ UNCHANGED <<ndebug, argc, argv, image1, image2, imageRef, width, height,
                   dimsSet, rmse1, rmse2, max1, max2, diff1, diff2, decoded,
                   events, written>>
    /\ UNCHANGED coreVars

Next ==
    \/ Main \/ Load1 \/ Load2 \/ LoadRef \/ AssertLoaded \/ ComputeRmse
    \/ ComputeMaxDiff \/ ComputeDiff \/ SaveDiff1 \/ SaveDiff2 \/ Return

Spec == Init /\ [][Next]_vars

\* The process has ended, and how.
Terminated == pc \in {"exit0", "exit1", "aborted", "crashed"}
ExitCode == CASE pc = "exit0" -> 0 [] pc = "exit1" -> 1
              [] pc = "aborted" -> 134 [] pc = "crashed" -> 139 [] OTHER -> 0 - 1

\* ------------------------------------------------------------- SpecCore
\* The metric functions, the export and the extraction loop on arbitrary
\* fields: the fields are drawn in CoreInit, each action is one call.
Fields == UNION {[1..n -> 0..MaxVal] : n \in 0..MaxLen}

CoreInit ==
    /\ data1 \in Fields
    /\ data2 \in Fields
    /\ cpc = "ready"
    /\ rmseRes = 0 /\ maxRes = <<0, 0>> /\ diffRes = <<>>
    /\ saveW = 0 /\ saveH = 0 /\ savedRes = NullBitmap /\ reloadRes = <<>>
    /\ MainIdle

\* rmse(data1, data2)
CallRmse ==
    /\ cpc = "ready"
    /\ \E st \in {"return"} \cup (IF PastEnd(data1, data2) # {} THEN {"crash"} ELSE {}) :
       \E junk \in JunkChoices({}, PastEnd(data1, data2)) :
          /\ cpc' = IF st = "return" THEN "rmse" ELSE "crashed"
          /\ rmseRes' = IF st = "return" THEN rmse(data1, data2, junk) ELSE rmseRes
    /\ UNCHANGED <<data1, data2, maxRes, diffRes, saveW, saveH, savedRes, reloadRes>>
    /\ UNCHANGED mainVars

\* maxDiff(data1, data2)
CallMaxDiff ==
    /\ cpc = "ready"
    /\ LET p1 == FirstPastEnd(data1)
           p2 == FirstPastEnd(data2) \cup PastEnd(data1, data2)
       IN  \E st \in {"return"} \cup (IF p1 \cup p2 # {} THEN {"crash"} ELSE {}) :
           \E junk \in JunkChoices(p1, p2) :
              /\ cpc' = IF st = "return" THEN "maxDiff" ELSE "crashed"
              /\ maxRes' = IF st = "return" THEN maxDiff(data1, data2, junk) ELSE maxRes
    /\ UNCHANGED <<data1, data2, rmseRes, diffRes, saveW, saveH, savedRes, reloadRes>>
    /\ UNCHANGED mainVars

\* diffVector(data1, data2), in a build with NDEBUG (nd) or without
CallDiffVector ==
    /\ cpc = "ready"
    /\ \E nd \in BOOLEAN :
       LET failed == ~nd /\ ~SameSize(data1, data2)
       IN  \E st \in (IF failed THEN {"abort"} ELSE {"return"})
                     \cup (IF ~failed /\ PastEnd(data1, data2) # {} THEN {"crash"} ELSE {}) :
           \E junk \in JunkChoices({}, PastEnd(data1, data2)) :
              /\ cpc' = CASE st = "return" -> "diffVector"
                          [] st = "abort" -> "aborted"
                          [] st = "crash" -> "crashed"
              /\ diffRes' = IF st = "return" THEN diffVector(data1, data2, junk) ELSE diffRes
    /\ UNCHANGED <<data1, data2, rmseRes, maxRes, saveW, saveH, savedRes, reloadRes>>
    /\ UNCHANGED mainVars

\* saveLuminanceImage(diffRes, w, h, ...)
CallSave ==
    /\ cpc = "diffVector"
    /\ \E w \in 1..MaxLen : \E h \in 1..MaxLen :
          /\ w * h <= MaxLen
          /\ \E o \in SaveOutcomes(diffRes, w, h) :
                /\ cpc' = IF o.status = "return" THEN "saved" ELSE "crashed"
                /\ saveW' = w
                /\ saveH' = h
                /\ savedRes' = o.file
    /\ UNCHANGED <<data1, data2, rmseRes, maxRes, diffRes, reloadRes>>
    /\ UNCHANGED mainVars

\* The extraction loop of loadImageToLuminance on the exported bitmap.
CallExtract ==
    /\ cpc = "saved"
    /\ cpc' = "reloaded"
    /\ reloadRes' = ExtractLuminance(savedRes)
    /\ UNCHANGED <<data1, data2, rmseRes, maxRes, diffRes, saveW, saveH, savedRes>>
    /\ UNCHANGED mainVars

CoreNext == CallRmse \/ CallMaxDiff \/ CallDiffVector \/ CallSave \/ CallExtract

SpecCore == CoreInit /\ [][CoreNext]_vars

\* --------------------------------------------------------------- claims
Range(seq) == {seq[i] : i \in 1..Len(seq)}

\* The run went past the usage check, so argv[1..3] are the three images.
Started == argc >= 4

\* A run whose file at position i has an extension other than hdr or exr.
UnsupportedExtension(i) == getFreeImageFormat(argv[i]) = "FIF_UNKNOWN"

\* C1 (as claimed): if any of the three filenames has an extension other
\* than hdr or exr, FreeImage_Load is never attempted on any of the files.
C1_NoDecodeBeforeFormatFailure ==
    (Started /\ \E i \in 1..3 : UnsupportedExtension(i)) => decoded = <<>>

\* Extraction of the file at position i fails: unsupported extension,
\* unsupported pixel type, or a non-finite R/G/B sample.
ExtractionFails(i) ==
    \/ UnsupportedExtension(i)
    \/ LET bitmap == FreeImage_Load(argv[i])
       IN  /\ bitmap # NullBitmap
           /\ \/ bitmap.type \notin {"FIT_RGBAF", "FIT_RGBF"}
              \/ HasNonFiniteSample(bitmap)

\* C2 (as claimed): when extraction of one of the three inputs fails, no
\* RMSE line is ever printed and the process ends with a non-zero code.
C2_FailedExtractionAborts ==
    (Started /\ \E i \in 1..3 : ExtractionFails(i)) =>
        /\ RmseLine1 \notin Range(events)
        /\ RmseLine2 \notin Range(events)
        /\ Terminated => ExitCode # 0

\* C3 (as claimed): with len(a) # len(b), neither rmse nor maxDiff returns
\* a computed value.
C3_LengthMismatchReturnsNothing ==
    Len(data1) # Len(data2) => cpc \notin {"rmse", "maxDiff"}

\* The three decoded images do not all have the same width and height.
DimensionsDiffer ==
    /\ Len(decoded) = 3
    /\ \A i \in 1..3 : decoded[i].w > 0 /\ decoded[i].h > 0
    /\ \E i \in 1..3 : \E j \in 1..3 :
          decoded[i].w # decoded[j].w \/ decoded[i].h # decoded[j].h

\* computeRMSE has called rmse and gone on.
RmseReturned == pc \in {"maxDiff", "diffVector", "save1", "save2", "return", "exit0"}

\* C4 (as claimed): if the three decoded images differ in width or height,
\* the run fails before rmse is invoked on any pair.
C4_DimensionMismatchBeforeMetric ==
    DimensionsDiffer => ~RmseReturned /\ RmseLine1 \notin Range(events)

\* C5 (as claimed): if either field has zero length, rmse returns no value
\* and maxDiff does not get to return one either.
C5_EmptyInputReturnsNothing ==
    (Len(data1) = 0 \/ Len(data2) = 0) => cpc \notin {"rmse", "maxDiff"}

\* |a[i] - b[i]| of the two fields of SpecCore, i a 1-based position.
Delta(i) == IF data1[i] < data2[i] THEN data2[i] - data1[i] ELSE data1[i] - data2[i]

EqualNonEmpty == Len(data1) = Len(data2) /\ Len(data1) > 0

\* C6: for non-empty equal-length fields, maxDiff returns (k, v) with v the
\* largest |a[i] - b[i]| and k the smallest (0-based) index that reaches it.
C6_MaxDiffFirstMaximum ==
    (cpc = "maxDiff" /\ EqualNonEmpty) =>
        /\ maxRes[1] + 1 \in 1..Len(data1)
        /\ maxRes[2] = Delta(maxRes[1] + 1)
        /\ \A i \in 1..Len(data1) : Delta(i) <= maxRes[2]
        /\ \A i \in 1..maxRes[1] : Delta(i) < maxRes[2]

\* C6 witness: a tie, a = [0,2,2], b = [0,0,0] gives index 1, value 2.
C6_Witness ==
    /\ cpc = "maxDiff"
    /\ data1 = <<0, 2, 2>> /\ data2 = <<0, 0, 0>>
    /\ maxRes = <<1, 2>>

\* The diff outputs of a run: the maxDiff lines and the FreeImage_Save calls.
DiffOutputs == {MaxDiffLine1, MaxDiffLine2, SaveCall1, SaveCall2}

\* Both files were written (when the width and height in force allow one).
BothWritten ==
    (dimsSet /\ width > 0 /\ height > 0) =>
        written["diff1.exr"] # NullBitmap /\ written["diff2.exr"] # NullBitmap

\* C7 (as claimed): with three positional arguments no maxDiff line is
\* printed and no diff file saved; with four or more, a run that ends with
\* exit code 0 has printed both maxDiff lines and saved both files.
C7_DiffWithFourOrMore ==
    /\ argc = 4 => Range(events) \cap DiffOutputs = {}
    /\ (argc >= 5 /\ pc = "exit0") => DiffOutputs \subseteq Range(events) /\ BothWritten

\* C7 (amended): export is enabled exactly when exactly four positional
\* arguments are given (argc = 5), whatever the fourth is.
C7_DiffWithExactlyFour ==
    /\ argc # 5 => Range(events) \cap DiffOutputs = {}
    /\ argc # 5 => written = NoFiles
    /\ (argc = 5 /\ pc = "exit0") => DiffOutputs \subseteq Range(events) /\ BothWritten

\* C7 witness: a completed run with four positional arguments, the fourth
\* being "0", that wrote both files.
C7_Witness ==
    /\ argc = 5 /\ pc = "exit0" /\ argv[4] = <<"0">>
    /\ DiffOutputs \subseteq Range(events)
    /\ written["diff1.exr"] # NullBitmap /\ written["diff2.exr"] # NullBitmap

\* The report events of a run, in the order they happened.
ReportKinds == {RmseLine1, RmseLine2} \cup DiffOutputs
IsReport(e) == e \in ReportKinds
Report == SelectSeq(events, IsReport)
FullReport == <<RmseLine1, RmseLine2, MaxDiffLine1, MaxDiffLine2, SaveCall1, SaveCall2>>

\* C8: the report events occur in the fixed order Image1 RMSE, Image2 RMSE,
\* Image1 maxDiff, Image2 maxDiff, save of diff1.exr, save of diff2.exr; a
\* run that ends with exit code 0 has the first two or all six.
C8_ReportOrder ==
    /\ Len(Report) <= 6
    /\ Report = SubSeq(FullReport, 1, Len(Report))
    /\ pc = "exit0" => Len(Report) \in {2, 6}

\* C8 witness: a completed run in diff mode, all six events in order.
C8_Witness == pc = "exit0" /\ Report = FullReport

PixelAt(bitmap, s, x) == SubSeq(bitmap.bits[s + 1], 4 * x + 1, 4 * x + 4)

\* C10: for equal-length fields of length width * height, the exported
\* bitmap holds R = G = B = |a[i] - b[i]|, A = 1.0 for i = y * width + x at
\* scanline height - 1 - y, column x, and the extraction loop reads the
\* diff values back in the order i = 0 .. width * height - 1.
C10_ExportOrientation ==
    (cpc \in {"saved", "reloaded"} /\ Len(data1) = Len(data2)
        /\ saveW * saveH = Len(data1)) =>
        /\ \A y \in 0..(saveH - 1) : \A x \in 0..(saveW - 1) :
              LET d == Delta(y * saveW + x + 1)
              IN  PixelAt(savedRes, saveH - 1 - y, x) = <<d, d, d, One>>
        /\ cpc = "reloaded" => reloadRes = [i \in 1..Len(data1) |-> Delta(i)]

\* C10 witness: a three-row export read back in the order it was built from.
C10_Witness ==
    /\ cpc = "reloaded" /\ saveW = 1 /\ saveH = 3
    /\ data1 = <<0, 1, 2>> /\ data2 = <<0, 0, 0>>
    /\ savedRes.bits = <<<<2, 2, 2, One>>, <<1, 1, 1, One>>, <<0, 0, 0, One>>>>
    /\ reloadRes = <<0, 1, 2>>

====
